---- MODULE Spec2Model ----
(***************************************************************************)
(* A model of the notification dispatch engine of twitter-monitoring-bot.  *)
(*                                                                         *)
(*   Spec       the notifier actors: init, put_message_into_queue and the  *)
(*              _work loops of the three backends, one step per           *)
(*              suspension point of the worker (notifier_base.py).         *)
(*   FairSpec   Spec with the fairness asyncio's scheduler gives a worker. *)
(*   SendSpec   one worker's send_message calls, one step per network call *)
(*              and per retry delay (telegram_notifier.py,                 *)
(*              discord_notifier.py, cqhttp_notifier.py).                  *)
(*   ConfirmSpec  TelegramNotifier.confirm against the inbound updates of  *)
(*              the bot, one step per await (telegram_notifier.py).        *)
(*   ListenSpec   TelegramNotifier.listen_exit_command, with the confirm   *)
(*              call it makes, one step per await.                         *)
(*   RaceSpec   ListenSpec with a confirm call of another task polling     *)
(*              the same update_offset.                                    *)
(*   GuardSpec  Spec with the await of TelegramNotifier.init and the calls *)
(*              made on actors that are not initialized.                   *)
(*   QuerySpec  TwitterWatcher.query, one step per request                 *)
(*              (twitter_watcher.py).                                      *)
(*                                                                         *)
(* The three backends are classes, never instantiated: their state is the  *)
(* class attributes.  A class attribute a subclass does not assign is the  *)
(* attribute of NotifierBase itself.                                       *)
(***************************************************************************)
EXTENDS Integers, Sequences, FiniteSets, TLC

\* ------------------------------------------------------------ bounds
\* Envelopes ever enqueued in one run.
MaxEnq == 2
\* send_message calls that confirm / listen_exit_command have in flight.
MaxDirect == 1

\* Targets (chat ids, webhook urls, gateway urls) of one envelope.
MaxTargets == 2
\* Photo urls of one envelope.
MaxPhotos == 2
\* Video urls of one envelope.
MaxVideos == 1

\* Inbound updates the bot receives in one run.
MaxUpdates == 2
\* Clock ticks of one run.
MaxTime == 2
\* Clock ticks in one second: datetime.now() is finer than a message's date.
TicksPerSecond == 2

\* Usernames given to TwitterWatcher, at most.
MaxTokens == 3
\* ------------------------------------------------------------ the actors
Backends == {"Telegram", "Discord", "Cqhttp"}

\* TelegramMessage, DiscordMessage, CqhttpMessage: the envelope class of a
\* backend carries that backend's name.  id is the envelope's place in the
\* order of all put_message_into_queue calls (a history label).
Envelope == [id : 1..(MaxEnq + 1), cls : Backends]
NoMessage == [id |-> 0, cls |-> "None"]

VARIABLES
  initialized,    \* cls.initialized of each backend class
  status,         \* StatusTracker: backend name -> healthy flag (absent: unset)
  message_queue,  \* NotifierBase.message_queue, the one asyncio.Queue object
  worker,         \* the _work task of each backend: "none" | "get" | "send"
  message,        \* the local `message` of each _work task
  direct,         \* send_message calls in flight made by confirm/listen_exit_command
  handshake,      \* TelegramNotifier.init is at its `await cls._get_updates()`
  init_fault,     \* an init call raised to its caller (history)
  enqueued,       \* every envelope put, in put order (history)
  sent,           \* the envelopes each worker handed to its send_message (history)
  faults          \* ids of the envelopes whose send_message raised into _work (history)

wvars == <<initialized, status, message_queue, worker, message, direct,
           handshake, init_fault, enqueued, sent, faults>>

VARIABLES
  actor,          \* SendSpec: the backend whose worker is followed
  frame           \* SendSpec: that worker's send_message activation, and its history

svars == <<actor, frame>>

VARIABLES
  clock,          \* ConfirmSpec: the time, in ticks
  inbox,          \* ConfirmSpec: the bot's inbound updates; update_id is the index
  update_offset,  \* TelegramNotifier.update_offset (0: None)
  cf              \* ConfirmSpec: the activation of confirm, and what it returned

kvars == <<clock, inbox, update_offset, cf>>

VARIABLES
  ls,             \* ListenSpec: the listen_exit_command task
  seen,           \* the update ids some _get_new_updates call has returned (history)
  twice           \* the update ids more than one call has returned (history)

lvars == <<ls, seen, twice>>

VARIABLES
  refused         \* GuardSpec: the last call refused by an actor still not initialized

VARIABLES
  token_number,         \* QuerySpec: TwitterWatcher.token_number
  current_token_index,  \* QuerySpec: TwitterWatcher.current_token_index
  q                     \* QuerySpec: the activation of query, and its history

qvars == <<token_number, current_token_index, q>>

vars == <<wvars, svars, kvars, lvars, refused, qvars>>

\* What the actions of one part of the model leave alone.
exceptW == <<svars, kvars, lvars, qvars>>
exceptS == <<wvars, kvars, lvars, refused, qvars>>
exceptK == <<wvars, svars, refused, qvars>>
exceptQ == <<wvars, svars, kvars, lvars, refused>>

\* StatusTracker.set_notifier_status(name, value): the registry's only mutator.
set_notifier_status(reg, name, value) ==
  [b \in (DOMAIN reg) \cup {name} |-> IF b = name THEN value ELSE reg[b]]

\* @check_initialized: the wrapped method runs only when cls.initialized.
check_initialized(b) == initialized[b]

\* assert isinstance(message, <the backend's message class>) in send_message.
IsInstance(m, b) == m.cls = b

\* The exceptions a send_message call can end with that are not caught inside
\* it.  A failed assert isinstance raises AssertionError whatever the backend.
\* Discord and Cqhttp catch Exception around every target; Telegram catches
\* only BadRequest, and the handler itself sends again.
SendMayRaise(b, m) == ~IsInstance(m, b) \/ b = "Telegram"
SendMayReturn(b, m) == IsInstance(m, b)

\* No call has been refused yet.
NotRefused == [op |-> "none", cls |-> "None", handshake |-> FALSE]

WInit ==
  /\ initialized = [b \in Backends |-> FALSE]
  /\ handshake = FALSE
  /\ refused = NotRefused
  /\ status = << >>
  /\ message_queue = << >>
  /\ worker = [b \in Backends |-> "none"]
  /\ message = [b \in Backends |-> NoMessage]
  /\ direct = 0
  /\ init_fault = FALSE
  /\ enqueued = << >>
  /\ sent = [b \in Backends |-> << >>]
  /\ faults = {}

\* TelegramNotifier.init up to its await: assert token, the bot and the logger
\* are set, and the get_updates request of the handshake is sent.
InitTelegramBegins ==
  /\ ~initialized["Telegram"]
  /\ ~handshake
  /\ handshake' = TRUE
  /\ UNCHANGED <<exceptW, refused>>
  /\ UNCHANGED <<initialized, status, message_queue, worker, message, direct,
                 init_fault, enqueued, sent, faults>>

\* The flag bound on NotifierBase instead: every class that has no initialized
\* attribute of its own reads it.  TelegramNotifier declares its own.
SetInitializedOnBase(flags, b) ==
  [c \in DOMAIN flags |-> IF c = b \/ c # "Telegram" THEN TRUE ELSE flags[c]]

\* cls.initialized = True in NotifierBase.init: the assignment binds the name
\* on the class init was called on, cls, and on no other class.  A class that
\* has not been assigned goes on reading False, its own (TelegramNotifier) or
\* the one of NotifierBase.
SetInitialized(flags, b) == [flags EXCEPT ![b] = TRUE]

\* NotifierBase.init, reached through super().init() of a backend's init:
\* registry entry healthy, initialized, and the worker task created.  Callers
\* call init once per backend.  DiscordNotifier.init and CqhttpNotifier.init
\* have no await before it; in TelegramNotifier.init it comes after the
\* handshake returned, and the step is the whole of init where the handshake
\* is not followed on its own (InitTelegramBegins), else what comes after it.
InitActor(b) ==
  /\ ~initialized[b]
  /\ handshake' = IF b = "Telegram" THEN FALSE ELSE handshake
  /\ status' = set_notifier_status(status, b, TRUE)
  /\ initialized' = SetInitialized(initialized, b)
  /\ worker' = [worker EXCEPT ![b] = "get"]
  /\ refused' = IF refused.cls = b THEN NotRefused ELSE refused
  /\ UNCHANGED exceptW
  /\ UNCHANGED <<message_queue, message, direct, init_fault, enqueued, sent, faults>>

\* An init that has set the registry entry before it raises.
RegisteredOnInitFault(reg) == set_notifier_status(reg, "Telegram", FALSE)

\* TelegramNotifier.init raises before super().init(): no set_notifier_status
\* call has been made.
AfterInitFault(reg) == reg

\* TelegramNotifier.init that fails: assert token (before the handshake), or
\* the get_updates handshake raising out of _retry.  Both come before
\* cls.initialized = True and before super().init().
InitTelegramFails ==
  /\ ~initialized["Telegram"]
  /\ handshake' = FALSE
  /\ init_fault' = TRUE
  /\ status' = AfterInitFault(status)
  /\ UNCHANGED <<exceptW, refused>>
  /\ UNCHANGED <<initialized, message_queue, worker, message, direct,
                 enqueued, sent, faults>>

\* put_message_into_queue on actor b, with an envelope of b's message class.
PutMessage(b) ==
  /\ check_initialized(b)
  /\ Len(enqueued) < MaxEnq
  /\ LET m == [id |-> Len(enqueued) + 1, cls |-> b] IN
       /\ message_queue' = Append(message_queue, m)
       /\ enqueued' = Append(enqueued, m)
  /\ UNCHANGED <<exceptW, refused>>
  /\ UNCHANGED <<handshake, initialized, status, worker, message, direct, init_fault, sent, faults>>

\* _work of backend b: message_queue.get() returns, the registry entry is set
\* busy and send_message is called (no suspension point in between).
WorkerGet(b) ==
  /\ worker[b] = "get"
  /\ message_queue # << >>
  /\ message' = [message EXCEPT ![b] = Head(message_queue)]
  /\ message_queue' = Tail(message_queue)
  /\ status' = set_notifier_status(status, b, FALSE)
  /\ worker' = [worker EXCEPT ![b] = "send"]
  /\ sent' = [sent EXCEPT ![b] = Append(@, Head(message_queue))]
  /\ UNCHANGED <<exceptW, refused>>
  /\ UNCHANGED <<handshake, initialized, direct, init_fault, enqueued, faults>>

\* The statement after `await cls.send_message(message)` in the try block.
AfterSendReturn(reg, b) == set_notifier_status(reg, b, TRUE)

\* The except branch of _work: print and log, nothing else.
AfterSendRaise(reg, b) == reg

\* A worker that lets the exception out of its loop: the task is over.
WorkerStopsOnRaise == "dead"

\* Where the _work task is after the except branch: back at `while True`.
WorkerAfterRaise == "get"

\* send_message of b's worker returns.
SendReturn(b) ==
  /\ worker[b] = "send"
  /\ SendMayReturn(b, message[b])
  /\ status' = AfterSendReturn(status, b)
  /\ worker' = [worker EXCEPT ![b] = "get"]
  /\ message' = [message EXCEPT ![b] = NoMessage]
  /\ UNCHANGED <<exceptW, refused>>
  /\ UNCHANGED <<handshake, initialized, message_queue, direct, init_fault, enqueued, sent, faults>>

\* send_message of b's worker raises: `except Exception` in _work.
SendRaise(b) ==
  /\ worker[b] = "send"
  /\ SendMayRaise(b, message[b])
  /\ status' = AfterSendRaise(status, b)
  /\ worker' = [worker EXCEPT ![b] = WorkerAfterRaise]
  /\ message' = [message EXCEPT ![b] = NoMessage]
  /\ faults' = faults \cup {message[b].id}
  /\ UNCHANGED <<exceptW, refused>>
  /\ UNCHANGED <<handshake, initialized, message_queue, direct, init_fault, enqueued, sent>>

\* A send_message that checks nothing before it sends.
AssertNothing(b) == TRUE

\* send_message: `assert cls.initialized`
AssertInitialized(b) == initialized[b]

\* confirm and listen_exit_command call TelegramNotifier.send_message
\* themselves, not through the queue.
DirectSendStart ==
  /\ AssertInitialized("Telegram")
  /\ direct < MaxDirect
  /\ direct' = direct + 1
  /\ UNCHANGED <<exceptW, refused>>
  /\ UNCHANGED <<handshake, initialized, status, message_queue, worker, message, init_fault,
                 enqueued, sent, faults>>

DirectSendEnd ==
  /\ direct > 0
  /\ direct' = direct - 1
  /\ UNCHANGED <<exceptW, refused>>
  /\ UNCHANGED <<handshake, initialized, status, message_queue, worker, message, init_fault,
                 enqueued, sent, faults>>

\* put_message_into_queue on an actor that is not initialized:
\* check_initialized raises, put_nowait is not reached.
PutRefused(b) ==
  /\ ~check_initialized(b)
  /\ refused' = [op |-> "put_message_into_queue", cls |-> b,
                 handshake |-> b = "Telegram" /\ handshake]
  /\ UNCHANGED <<exceptW, wvars>>

\* send_message of backend b called on an actor that is not initialized: the
\* assert raises AssertionError before anything is sent.
SendRefused(b) ==
  /\ ~AssertInitialized(b)
  /\ refused' = [op |-> "send_message", cls |-> b,
                 handshake |-> b = "Telegram" /\ handshake]
  /\ UNCHANGED <<exceptW, wvars>>

WNext ==
  \/ \E b \in Backends : InitActor(b)
  \/ InitTelegramFails
  \/ \E b \in Backends : PutMessage(b)
  \/ \E b \in Backends : WorkerGet(b)
  \/ \E b \in Backends : SendReturn(b)
  \/ \E b \in Backends : SendRaise(b)
  \/ DirectSendStart
  \/ DirectSendEnd

\* ------------------------------------------------------------ send_message
\* A retry loop that allows one attempt more.
TriesOneMore == 5 + 1

\* _retry(func, *args, tries=5, delay=5)
Tries == 5

\* telegram.error: TelegramError is the base; NetworkError, RetryAfter and
\* Forbidden derive from it; TimedOut and BadRequest derive from NetworkError.
Parent(e) ==
  CASE e = "TimedOut" -> "NetworkError"
    [] e = "BadRequest" -> "NetworkError"
    [] e = "NetworkError" -> "TelegramError"
    [] e = "RetryAfter" -> "TelegramError"
    [] e = "Forbidden" -> "TelegramError"
    [] OTHER -> "Exception"

\* issubclass(e, c): what an `except c` clause tests.
RECURSIVE IsSubclass(_, _)
IsSubclass(e, c) ==
  IF e = c THEN TRUE
  ELSE IF e = "Exception" THEN FALSE
  ELSE IsSubclass(Parent(e), c)

Caught(e, classes) == \E c \in classes : IsSubclass(e, c)

\* except (RetryAfter, TimedOut, NetworkError) in _retry
RetryExcept == {"RetryAfter", "TimedOut", "NetworkError"}

\* What one bot.send_* call can end with.
TgOutcomes == {"ok", "TimedOut", "RetryAfter", "BadRequest", "Forbidden"}

\* What one session.post can end with in _post: the expected status, the
\* RuntimeError _post raises itself, or an aiohttp client error.
HttpOutcomes == {"ok", "RuntimeError", "ClientError"}

TargetIds == 1..MaxTargets

\* chat_id_list / webhook_url_list / url_list: the targets, each once.
TargetLists ==
  {t \in UNION {[1..n -> TargetIds] : n \in 1..MaxTargets} :
     \A i, j \in DOMAIN t : i # j => t[i] # t[j]}

\* The strings of an envelope and of a post are the sequences of their
\* pieces; a url prefix is one piece.
Http == <<"http://">>
Https == <<"https://">>

\* message.text: one without a link, one with an https and an http link.
Plain == <<"hi">>
Linked == <<"a ">> \o Https \o <<"t.co b ">> \o Http \o <<"u.org">>
EnvelopeTexts == {Plain, Linked}

\* message.photo_url_list[i - 1] and message.video_url_list[i - 1].
PhotoUrl(i) == (IF i % 2 = 1 THEN Http ELSE Https) \o <<"x/", ToString(i)>>
VideoUrl(i) == Https \o <<"v/", ToString(i)>>

\* The envelope a worker dequeues: targets, text, and how many photo and
\* video urls.
SendEnvelopes ==
  [targets : TargetLists, text : EnvelopeTexts, photos : 0..MaxPhotos,
   videos : 0..MaxVideos]
NoEnvelope == [targets |-> << >>, text |-> << >>, photos |-> 0, videos |-> 0]

\* One _retry call: the bot method, its attempts, delays and transient faults
\* so far, the outcome of its first attempt and how it ended (history).
NoCall == [method |-> "none", attempts |-> 0, delays |-> 0, faults |-> 0,
           first |-> "none", result |-> "none"]
NewCall(method) == [NoCall EXCEPT !.method = method]

\* _send_message_to_single_chat: the bot method the arguments select.
Method(m, textonly) ==
  IF ~textonly /\ m.videos > 0 THEN "send_video"
  ELSE IF ~textonly /\ m.photos > 0
    THEN (IF m.photos = 1 THEN "send_photo" ELSE "send_media_group")
  ELSE "send_message"

\* posted is what has been POSTed to the target of the for loop's present
\* turn, in order, and fault_at the place of the post that faulted (0: none);
\* last is the same for the turn before (Discord and Cqhttp, history).
NoTurn == [target |-> 0, posted |-> << >>, fault_at |-> 0]

IdleFrame ==
  [pc |-> "get", msg |-> NoEnvelope, idx |-> 0, fallback |-> FALSE, i |-> 0,
   post |-> 0, calls |-> [media |-> NoCall, text |-> NoCall],
   attempted |-> {}, received |-> {}, faulted |-> {},
   posted |-> << >>, fault_at |-> 0, last |-> NoTurn,
   result |-> "none", logged |-> "none"]

Target(f) == f.msg.targets[f.idx]
Slot(f) == IF f.fallback THEN "text" ELSE "media"

\* send_message returns to _work.
SendReturns(f) == [f EXCEPT !.pc = "get", !.result = "returned"]

\* An exception leaves send_message: _work's `except Exception` prints and logs it.
SendRaises(f, e) == [f EXCEPT !.pc = "get", !.result = e, !.logged = e]

\* TelegramNotifier.send_message: the body of `for chat_id in chat_id_list`
\* starts, with the first _retry call of _send_message_to_single_chat.
TgEnterTarget(f, k) ==
  [f EXCEPT !.idx = k, !.fallback = FALSE, !.i = 0, !.pc = "attempt",
            !.calls = [media |-> NewCall(Method(f.msg, FALSE)), text |-> NoCall]]

TgTargetDone(f) ==
  IF f.idx < Len(f.msg.targets) THEN TgEnterTarget(f, f.idx + 1) ELSE SendReturns(f)

\* TelegramNotifier.send_message: exception e comes out of
\* _send_message_to_single_chat.  In the try block `except BadRequest` sends
\* text only; out of the handler itself nothing is caught.
TgExcept(f, e) ==
  IF ~f.fallback /\ IsSubclass(e, "BadRequest")
    THEN [f EXCEPT !.fallback = TRUE, !.i = 0, !.pc = "attempt",
                   !.calls.text = NewCall(Method(f.msg, TRUE))]
    ELSE SendRaises(f, e)

\* _retry with the sleep left out: straight on to the next attempt.
RetryWithoutDelay(f) ==
  IF f.i + 1 < Tries
    THEN [f EXCEPT !.calls[Slot(f)].faults = @ + 1, !.i = @ + 1]
    ELSE [f EXCEPT !.calls[Slot(f)].faults = @ + 1, !.pc = "sleep"]

\* _retry: a caught fault is logged, then `await asyncio.sleep(delay)`.
RetryOnFault(f) ==
  [f EXCEPT !.calls[Slot(f)].faults = @ + 1, !.pc = "sleep"]

\* _retry: `await func(*args, **kwargs)` ends with outcome o.
TgOnOutcome(f, o) ==
  LET k == Slot(f)
      t == Target(f)
      f1 == [f EXCEPT !.calls[k].attempts = @ + 1,
                      !.calls[k].first = IF f.calls[k].attempts = 0 THEN o ELSE @,
                      !.attempted = @ \cup {t}]
  IN  IF o = "ok"
        THEN TgTargetDone([f1 EXCEPT !.calls[k].result = "ok",
                                     !.received = @ \cup {t}])
      ELSE IF Caught(o, RetryExcept)
        THEN RetryOnFault([f1 EXCEPT !.faulted = @ \cup {t}])
      ELSE TgExcept([f1 EXCEPT !.calls[k].result = o, !.faulted = @ \cup {t}], o)

\* _retry: the sleep ends; `for i in range(tries)` goes on, or is exhausted
\* and `raise RuntimeError("Max retries exceeded.")`.
TgAfterSleep(f) ==
  LET k == Slot(f)
      f1 == [f EXCEPT !.calls[k].delays = @ + 1, !.i = @ + 1]
  IN  IF f.i + 1 < Tries
        THEN [f1 EXCEPT !.pc = "attempt"]
        ELSE TgExcept([f1 EXCEPT !.calls[k].result = "RuntimeError"], "RuntimeError")

\* Discord / Cqhttp send_message: the posts to one target are the text, then
\* one per photo url, then one per video url.
NPosts(m) == 1 + m.photos + m.videos

\* str.replace(old, ''): every occurrence of old, left to right, removed.
RECURSIVE Remove(_, _)
Remove(t, old) ==
  IF Len(t) < Len(old) THEN t
  ELSE IF SubSeq(t, 1, Len(old)) = old
    THEN Remove(SubSeq(t, Len(old) + 1, Len(t)), old)
  ELSE <<Head(t)>> \o Remove(Tail(t), old)

\* A _remove_http that knows https:// only.
remove_https_only(text) == Remove(text, Https)

\* CqhttpNotifier: _remove_http(text)
remove_http(text) == Remove(Remove(text, Https), Http)

\* CqhttpNotifier._send_text / _send_photo / _send_video: the `message` field.
CqText(text) == remove_http(text)
CqPhoto(photo_url) == <<"[CQ:image,file=">> \o photo_url \o <<"]">>
CqVideo(video_url) == <<"[CQ:video,file=">> \o video_url \o <<"]">>

\* The body of the k-th post to a target: Cqhttp's `message`, Discord's
\* `content` (the text and the urls as they are).
Body(b, m, k) ==
  IF k = 1 THEN (IF b = "Cqhttp" THEN CqText(m.text) ELSE m.text)
  ELSE IF k <= 1 + m.photos
    THEN (IF b = "Cqhttp" THEN CqPhoto(PhotoUrl(k - 1)) ELSE PhotoUrl(k - 1))
  ELSE (IF b = "Cqhttp" THEN CqVideo(VideoUrl(k - 1 - m.photos))
                         ELSE VideoUrl(k - 1 - m.photos))

HttpTargetDone(f) ==
  LET f1 == [f EXCEPT !.posted = << >>, !.fault_at = 0,
                      !.last = [target |-> Target(f), posted |-> f.posted,
                                fault_at |-> f.fault_at]]
  IN  IF f.idx < Len(f.msg.targets)
        THEN [f1 EXCEPT !.idx = @ + 1, !.post = 1]
        ELSE SendReturns(f1)

\* A try block around each post: after a fault the next post of the target.
NextPostAfterFault(f) ==
  IF f.post < NPosts(f.msg) THEN [f EXCEPT !.post = @ + 1] ELSE HttpTargetDone(f)

\* Discord / Cqhttp send_message: the try block is around all the posts of
\* one target, so a fault in one of them ends the target.
AfterPostFault(f) == HttpTargetDone(f)

\* Discord / Cqhttp send_message: one _post of backend b ends with outcome o.
\* A fault is caught by `except Exception` and logged.
HttpOnOutcome(b, f, o) ==
  LET t == Target(f)
      f1 == [f EXCEPT !.attempted = @ \cup {t},
                      !.posted = Append(@, Body(b, f.msg, f.post))]
  IN  IF o = "ok"
        THEN (IF f.post < NPosts(f.msg)
                THEN [f1 EXCEPT !.post = @ + 1]
                ELSE HttpTargetDone([f1 EXCEPT !.received = @ \cup {t}]))
        ELSE AfterPostFault([f1 EXCEPT !.faulted = @ \cup {t},
                                       !.fault_at = IF @ = 0 THEN f.post ELSE @])

\* The followed worker is idle at message_queue.get().
SIdle == actor = "Telegram" /\ frame = IdleFrame

SInit == actor \in Backends /\ frame = IdleFrame

\* _work: an envelope of the actor's class is dequeued and send_message runs
\* up to its first network call.
SendBegin ==
  /\ frame = IdleFrame
  /\ \E m \in SendEnvelopes :
       LET f == [IdleFrame EXCEPT !.msg = m] IN
         frame' = IF actor = "Telegram"
                    THEN TgEnterTarget(f, 1)
                    ELSE [f EXCEPT !.idx = 1, !.post = 1, !.pc = "post"]
  /\ UNCHANGED <<actor, exceptS>>

\* TelegramNotifier._retry: one attempt ends.
TgAttempt ==
  /\ frame.pc = "attempt"
  /\ \E o \in TgOutcomes : frame' = TgOnOutcome(frame, o)
  /\ UNCHANGED <<actor, exceptS>>

\* TelegramNotifier._retry: asyncio.sleep(delay) ends.
TgSleep ==
  /\ frame.pc = "sleep"
  /\ frame' = TgAfterSleep(frame)
  /\ UNCHANGED <<actor, exceptS>>

\* DiscordNotifier._post / CqhttpNotifier._post: one post ends.
HttpPost ==
  /\ frame.pc = "post"
  /\ \E o \in HttpOutcomes : frame' = HttpOnOutcome(actor, frame, o)
  /\ UNCHANGED <<actor, exceptS>>

\* _work: the next turn of `while True`, at message_queue.get() again; what
\* is remembered of the call before is dropped.
WorkerLoops ==
  /\ frame.pc = "get"
  /\ frame # IdleFrame
  /\ frame' = IdleFrame
  /\ UNCHANGED <<actor, exceptS>>

SNext == SendBegin \/ TgAttempt \/ TgSleep \/ HttpPost \/ WorkerLoops

\* ------------------------------------------------------------ confirm
\* The chats that write to the bot, by chat id.
Chats == {101, 102, 103}

\* message.chat_id_list of the envelope given to confirm.
ChatLists == {<<101>>, <<101, 102>>}

\* update.message.text, a string as the sequence of its characters; NoText is
\* None (a message without text, such as a photo).
NoText == <<"None">>
Texts == {<<"y">>, <<" ", "Y">>, <<"n", " ">>, <<"y", "e">>}

Whitespace == {" "}

\* str.strip(): leading and trailing whitespace removed.
RECURSIVE LStrip(_)
LStrip(t) == IF t # << >> /\ Head(t) \in Whitespace THEN LStrip(Tail(t)) ELSE t
RECURSIVE RStrip(_)
RStrip(t) ==
  IF t # << >> /\ t[Len(t)] \in Whitespace THEN RStrip(SubSeq(t, 1, Len(t) - 1)) ELSE t
Strip(t) == RStrip(LStrip(t))

\* str.upper(), character by character.
UpperChar(c) ==
  CASE c = "y" -> "Y" [] c = "n" -> "N" [] c = "e" -> "E" [] c = "x" -> "X"
    [] c = "i" -> "I" [] c = "t" -> "T" [] OTHER -> c
Upper(t) == [i \in DOMAIN t |-> UpperChar(t[i])]

\* A message's date is in whole seconds.
MessageDate(t) == (t \div TicksPerSecond) * TicksPerSecond

\* An inbound update: a message (date, chat, text), or an update of another
\* kind, whose update.message is None.
OtherUpdate == [message |-> FALSE, date |-> 0, chat |-> 0, text |-> NoText]
MessageUpdate(date, chat, text) ==
  [message |-> TRUE, date |-> date, chat |-> chat, text |-> text]

\* bot.get_updates(offset): the ids of the updates from offset on (all of
\* them for None).
GetUpdates(offset) == {u \in DOMAIN inbox : u >= offset}

\* _get_new_updates: `cls.update_offset = updates[-1].update_id + 1` if updates.
NewOffset(got, old) ==
  IF got # {} THEN (CHOOSE u \in got : \A v \in got : v <= u) + 1 ELSE old

\* A date test that lets through the messages of the second before.
TooOldSlack(date, sending_time) == date + TicksPerSecond < sending_time

\* confirm: `if update.message.date < sending_time: continue`
TooOld(date, sending_time) == date < sending_time

\* confirm: `if update.message.chat.id not in message.chat_id_list: continue`
NotATarget(chat, chat_id_list) ==
  \A i \in DOMAIN chat_id_list : chat_id_list[i] # chat

\* confirm: the updates of one poll that get past the three `continue` tests.
Considered(got, c) ==
  {u \in got : /\ inbox[u].message
               /\ ~TooOld(inbox[u].date, c.sending_time)
               /\ ~NotATarget(inbox[u].chat, c.chat_id_list)}

\* confirm: what `text == "Y"` / `text == "N"` make of one considered update.
\* update.message.text.strip() on None raises AttributeError.
Verdict(u) ==
  IF inbox[u].text = NoText THEN "AttributeError"
  ELSE LET text == Upper(Strip(inbox[u].text)) IN
         IF text = <<"Y">> THEN "True"
         ELSE IF text = <<"N">> THEN "False"
         ELSE "next"

\* confirm: the for loop over one poll's updates, in update order: the first
\* considered update that does not fall through decides.
Deciding(got, c) ==
  {u \in Considered(got, c) :
     /\ Verdict(u) # "next"
     /\ \A v \in Considered(got, c) : v < u => Verdict(v) = "next"}

IdleConfirm ==
  [pc |-> "idle", chat_id_list |-> << >>, sending_time |-> 0, offset |-> 0,
   result |-> "none", by |-> 0]

\* After TelegramNotifier.init with no backlog: update_offset is None.
KInit ==
  /\ clock = 0
  /\ inbox = << >>
  /\ update_offset = 0
  /\ cf = IdleConfirm

Tick ==
  /\ clock < MaxTime
  /\ clock' = clock + 1
  /\ UNCHANGED <<inbox, update_offset, cf, exceptK, lvars>>

\* A chat writes to the bot, or an update of another kind arrives.
Inbound ==
  /\ Len(inbox) < MaxUpdates
  /\ \E u \in {MessageUpdate(MessageDate(clock), c, t) :
                 c \in Chats, t \in Texts \cup {NoText}} \cup {OtherUpdate} :
       inbox' = Append(inbox, u)
  /\ UNCHANGED <<clock, update_offset, cf, exceptK, lvars>>

\* confirm(message) is called: the prompt is sent with send_message, directly.
ConfirmCall ==
  /\ cf.pc = "idle"
  /\ ls.pc # "exited"
  /\ \E l \in ChatLists :
       cf' = [IdleConfirm EXCEPT !.pc = "send", !.chat_id_list = l]
  /\ UNCHANGED <<clock, inbox, update_offset, exceptK, lvars>>

\* send_message returns: sending_time = datetime.now(), and the first
\* _get_new_updates call reads update_offset for its request.
ConfirmSent ==
  /\ cf.pc = "send"
  /\ ls.pc # "exited"
  /\ cf' = [cf EXCEPT !.pc = "poll", !.sending_time = clock, !.offset = update_offset]
  /\ UNCHANGED <<clock, inbox, update_offset, exceptK, lvars>>

\* send_message or get_updates raises (retries exhausted): confirm raises.
ConfirmRaises ==
  /\ cf.pc \in {"send", "poll"}
  /\ ls.pc # "exited"
  /\ cf' = [cf EXCEPT !.pc = "failed", !.result = "RuntimeError"]
  /\ UNCHANGED <<clock, inbox, update_offset, exceptK, lvars>>

\* get_updates returns: the cursor moves past what it returned, and the for
\* loop runs over the updates (no await in it).
ConfirmPoll ==
  /\ cf.pc = "poll"
  /\ ls.pc # "exited"
  /\ LET got == GetUpdates(cf.offset)
         dec == Deciding(got, cf)
     IN  /\ update_offset' = NewOffset(got, update_offset)
         /\ seen' = seen \cup got
         /\ twice' = twice \cup (seen \cap got)
         /\ cf' = IF dec = {}
                    THEN [cf EXCEPT !.pc = "sleep"]
                    ELSE LET u == CHOOSE x \in dec : TRUE IN
                           [cf EXCEPT !.pc = IF Verdict(u) = "AttributeError"
                                               THEN "failed" ELSE "done",
                                      !.result = Verdict(u), !.by = u]
  /\ UNCHANGED <<clock, inbox, ls, exceptK>>

\* asyncio.sleep(10) ends: the next _get_new_updates call.
ConfirmWake ==
  /\ cf.pc = "sleep"
  /\ ls.pc # "exited"
  /\ cf' = [cf EXCEPT !.pc = "poll", !.offset = update_offset]
  /\ UNCHANGED <<clock, inbox, update_offset, exceptK, lvars>>

KNext ==
  \/ Tick
  \/ Inbound
  \/ ConfirmCall
  \/ ConfirmSent
  \/ ConfirmRaises
  \/ ConfirmPoll
  \/ ConfirmWake

\* ------------------------------------------------------------ listen_exit_command
\* The chat listen_exit_command is given, and what the chats write while it
\* runs.
ExitChat == 101
ListenChats == {101, 103}
ListenTexts == {<<" ", "e", "X", "i", "t">>, <<"y">>, <<"n", " ">>, <<"e", "x">>}

\* bot.get_updates(offset) answered when the inbox held hi updates: a
\* response is what the server had when it read the request, whenever the
\* await ends.
Answer(offset, hi) == {u \in GetUpdates(offset) : u <= hi}

\* listen_exit_command: the three `continue` tests of its for loop.
WrongChat(chat, chat_id) == chat # chat_id
Heard(u, l) ==
  /\ inbox[u].message
  /\ ~TooOld(inbox[u].date, l.starting_time)
  /\ ~WrongChat(inbox[u].chat, l.chat_id)

\* listen_exit_command: what `text == "EXIT"` makes of one update it heard.
Command(u) ==
  IF inbox[u].text = NoText THEN "AttributeError"
  ELSE IF Upper(Strip(inbox[u].text)) = <<"E", "X", "I", "T">> THEN "EXIT"
  ELSE "next"

\* A listener that takes any answer to its question for a yes.
Answered(result) == result \in {"True", "False"}

\* listen_exit_command: `if confirmed:`
Confirmed(result) == result = "True"

IdleListen ==
  [pc |-> "idle", chat_id |-> 0, starting_time |-> 0, offset |-> 0, hi |-> 0,
   pos |-> 0, last |-> 0, sending_time |-> 0, exit_by |-> 0, confirmed |-> "none",
   by |-> 0, farewell |-> FALSE]

LIdle == ls = IdleListen /\ seen = {} /\ twice = {}

\* listen_exit_command: the for loop over the updates from..to of one poll,
\* up to the await of the confirm call or to the asyncio.sleep(20) after it.
ListenLoop(l, from, to) ==
  LET stop == {u \in from..to : Heard(u, l) /\ Command(u) # "next"} IN
    IF stop = {} THEN [l EXCEPT !.pc = "sleep"]
    ELSE LET u == CHOOSE x \in stop : \A y \in stop : x <= y IN
           IF Command(u) = "AttributeError" THEN [l EXCEPT !.pc = "failed"]
           ELSE [l EXCEPT !.pc = "c_send", !.pos = u, !.last = to, !.exit_by = u]

\* listen_exit_command: the confirm call returned.
AfterConfirm(l, result, u) ==
  IF Confirmed(result)
    THEN [l EXCEPT !.pc = "farewell", !.confirmed = result, !.by = u]
    ELSE ListenLoop([l EXCEPT !.confirmed = result, !.by = u], l.pos + 1, l.last)

\* A chat writes to the bot while listen_exit_command runs.
InboundCommand ==
  /\ Len(inbox) < MaxUpdates
  /\ \E u \in {MessageUpdate(MessageDate(clock), c, t) :
                 c \in ListenChats, t \in ListenTexts \cup {NoText}} \cup {OtherUpdate} :
       inbox' = Append(inbox, u)
  /\ UNCHANGED <<clock, update_offset, cf, exceptK, lvars>>

\* listen_exit_command(chat_id) is called: starting_time = datetime.utcnow(),
\* and the first _get_new_updates call reads update_offset for its request.
ListenStart ==
  /\ ls.pc = "idle"
  /\ ls' = [IdleListen EXCEPT !.pc = "poll", !.chat_id = ExitChat,
                              !.starting_time = clock, !.offset = update_offset]
  /\ UNCHANGED <<clock, inbox, update_offset, cf, seen, twice, exceptK>>

\* The server reads a get_updates request of the listener (its own or the one
\* of its confirm call) and answers with the updates it holds.
ListenAnswered ==
  /\ ls.pc \in {"poll", "c_poll"}
  /\ ls' = [ls EXCEPT !.pc = IF ls.pc = "poll" THEN "reply" ELSE "c_reply",
                      !.hi = Len(inbox)]
  /\ UNCHANGED <<clock, inbox, update_offset, cf, seen, twice, exceptK>>

\* _get_new_updates returns in listen_exit_command: the cursor is set past the
\* last update of the response, and the for loop runs.
ListenPoll ==
  /\ ls.pc = "reply"
  /\ LET got == Answer(ls.offset, ls.hi) IN
       /\ update_offset' = NewOffset(got, update_offset)
       /\ seen' = seen \cup got
       /\ twice' = twice \cup (seen \cap got)
       /\ ls' = IF got = {} THEN [ls EXCEPT !.pc = "sleep"]
                ELSE ListenLoop(ls, NewOffset(got, 0) - Cardinality(got),
                                NewOffset(got, 0) - 1)
  /\ UNCHANGED <<clock, inbox, cf, exceptK>>

\* asyncio.sleep(20) ends: the next _get_new_updates call.
ListenWake ==
  /\ ls.pc = "sleep"
  /\ ls' = [ls EXCEPT !.pc = "poll", !.offset = update_offset]
  /\ UNCHANGED <<clock, inbox, update_offset, cf, seen, twice, exceptK>>

\* confirm, called by listen_exit_command: the prompt's send_message returns,
\* sending_time = datetime.utcnow(), and its first _get_new_updates call.
ListenConfirmSent ==
  /\ ls.pc = "c_send"
  /\ ls' = [ls EXCEPT !.pc = "c_poll", !.sending_time = clock,
                      !.offset = update_offset]
  /\ UNCHANGED <<clock, inbox, update_offset, cf, seen, twice, exceptK>>

\* confirm, called by listen_exit_command: _get_new_updates returns and the
\* for loop runs; a Y or N makes confirm return to listen_exit_command.
ListenConfirmPoll ==
  /\ ls.pc = "c_reply"
  /\ LET got == Answer(ls.offset, ls.hi)
         c   == [sending_time |-> ls.sending_time, chat_id_list |-> <<ls.chat_id>>]
         dec == Deciding(got, c)
     IN  /\ update_offset' = NewOffset(got, update_offset)
         /\ seen' = seen \cup got
         /\ twice' = twice \cup (seen \cap got)
         /\ ls' = IF dec = {} THEN [ls EXCEPT !.pc = "c_sleep"]
                  ELSE LET u == CHOOSE x \in dec : TRUE IN
                         IF Verdict(u) = "AttributeError"
                           THEN [ls EXCEPT !.pc = "failed"]
                           ELSE AfterConfirm(ls, Verdict(u), u)
  /\ UNCHANGED <<clock, inbox, cf, exceptK>>

\* confirm, called by listen_exit_command: asyncio.sleep(10) ends.
ListenConfirmWake ==
  /\ ls.pc = "c_sleep"
  /\ ls' = [ls EXCEPT !.pc = "c_poll", !.offset = update_offset]
  /\ UNCHANGED <<clock, inbox, update_offset, cf, seen, twice, exceptK>>

\* The send_message call of the farewell returns; logger.error, and
\* asyncio.sleep(5) begins.
ListenFarewell ==
  /\ ls.pc = "farewell"
  /\ ls' = [ls EXCEPT !.pc = "exit_sleep", !.farewell = TRUE]
  /\ UNCHANGED <<clock, inbox, update_offset, cf, seen, twice, exceptK>>

\* asyncio.sleep(5) ends: os._exit(0).
ListenExit ==
  /\ ls.pc = "exit_sleep"
  /\ ls' = [ls EXCEPT !.pc = "exited"]
  /\ UNCHANGED <<clock, inbox, update_offset, cf, seen, twice, exceptK>>

\* A send_message or get_updates call of the listener raises (retries
\* exhausted): listen_exit_command raises, and its task ends.
ListenRaises ==
  /\ ls.pc \in {"poll", "reply", "c_send", "c_poll", "c_reply", "farewell"}
  /\ ls' = [ls EXCEPT !.pc = "failed"]
  /\ UNCHANGED <<clock, inbox, update_offset, cf, seen, twice, exceptK>>

LNext ==
  \/ Tick
  \/ InboundCommand
  \/ ListenStart
  \/ ListenAnswered
  \/ ListenPoll
  \/ ListenWake
  \/ ListenConfirmSent
  \/ ListenConfirmPoll
  \/ ListenConfirmWake
  \/ ListenFarewell
  \/ ListenExit
  \/ ListenRaises

\* ------------------------------------------------------------ TwitterWatcher.query
\* What one requests.request call can end with: a response (status code, and
\* what its body is: empty, JSON with an "errors" field, JSON without one, or
\* not JSON), requests.exceptions.ConnectionError, or another exception of
\* requests, such as ReadTimeout.
Statuses == {200, 403, 404, 429, 500}
Bodies == {"empty", "errors", "json", "notjson"}
Responses == [kind : {"response"}, status : Statuses, body : Bodies]
Raised(e) == [kind |-> e, status |-> 0, body |-> "empty"]
QueryOutcomes == Responses \cup {Raised("ConnectionError"), Raised("ReadTimeout")}

\* An index that goes on without wrapping around.
NextTokenUnwrapped(i, n) == i + 1

\* query: `(self.current_token_index + 1) % self.token_number`
NextToken(i, n) == (i + 1) % n

\* query: what the body of the for loop does with the outcome of the request:
\* return the parsed response, go on with the next token, or let an exception
\* out (`except ConnectionError` catches that one only; response.json() raises
\* on a body that is not JSON).
OnResponse(o) ==
  IF o.kind = "ConnectionError" THEN "continue"
  ELSE IF o.kind # "response" THEN "raise"
  ELSE IF o.status \in {200, 403, 404}
    THEN (IF o.body = "empty" THEN "continue"
          ELSE IF o.body = "notjson" THEN "raise"
          ELSE IF o.body = "errors" THEN "continue"
          ELSE "return")
  ELSE "continue"

IdleQuery ==
  [pc |-> "idle", start |-> 0, used |-> << >>, outcomes |-> << >>,
   result |-> Raised("none")]

\* TwitterWatcher.__init__: token_number = len(auth_username_list), which is
\* not empty, and current_token_index = random.randrange(token_number).
QInit ==
  /\ token_number \in 1..MaxTokens
  /\ current_token_index \in 0..(token_number - 1)
  /\ q = IdleQuery

QIdle == token_number = 1 /\ current_token_index = 0 /\ q = IdleQuery

\* query: one more turn of `for _ in range(self.token_number)`, up to the
\* request; after the last turn the log and `return None`.
NextTurn(c, index) ==
  IF Len(c.used) < token_number
    THEN [c EXCEPT !.pc = "request",
                   !.used = Append(@, NextToken(index, token_number))]
    ELSE [c EXCEPT !.pc = "none"]

\* query(api_name, params) is called; the first request is sent.
QueryCall ==
  /\ q.pc # "request"
  /\ q' = NextTurn([IdleQuery EXCEPT !.start = current_token_index],
                   current_token_index)
  /\ current_token_index' = NextToken(current_token_index, token_number)
  /\ UNCHANGED <<token_number, exceptQ>>

\* query: the request ends with outcome o.
QueryResponse ==
  /\ q.pc = "request"
  /\ \E o \in QueryOutcomes :
       LET c == [q EXCEPT !.outcomes = Append(@, o)] IN
         CASE OnResponse(o) = "return" ->
                /\ q' = [c EXCEPT !.pc = "returned", !.result = o]
                /\ UNCHANGED current_token_index
           [] OnResponse(o) = "raise" ->
                /\ q' = [c EXCEPT !.pc = "raised"]
                /\ UNCHANGED current_token_index
           [] OTHER ->
                /\ q' = NextTurn(c, current_token_index)
                /\ current_token_index' =
                     IF Len(c.used) < token_number
                       THEN NextToken(current_token_index, token_number)
                       ELSE current_token_index
  /\ UNCHANGED <<token_number, exceptQ>>

QNext == QueryCall \/ QueryResponse

\* ------------------------------------------------------------ specifications
Init == WInit /\ SIdle /\ KInit /\ LIdle /\ QIdle
Next == WNext
Spec == Init /\ [][Next]_vars

SendInit == WInit /\ SInit /\ KInit /\ LIdle /\ QIdle
SendNext == SNext
SendSpec == SendInit /\ [][SendNext]_vars

ConfirmInit == WInit /\ SIdle /\ KInit /\ LIdle /\ QIdle
ConfirmNext == KNext
ConfirmSpec == ConfirmInit /\ [][ConfirmNext]_vars

\* Spec, with the await inside TelegramNotifier.init and with the calls made on
\* actors that are not initialized.
GuardInit == WInit /\ SIdle /\ KInit /\ LIdle /\ QIdle
GuardNext ==
  \/ WNext
  \/ InitTelegramBegins
  \/ \E b \in Backends : PutRefused(b)
  \/ \E b \in Backends : SendRefused(b)
GuardSpec == GuardInit /\ [][GuardNext]_vars

ListenInit == WInit /\ SIdle /\ KInit /\ LIdle /\ QIdle
ListenNext == LNext
ListenSpec == ListenInit /\ [][ListenNext]_vars

\* listen_exit_command runs as a task of its own while another task calls
\* confirm.
RaceInit == WInit /\ SIdle /\ KInit /\ LIdle /\ QIdle
RaceNext ==
  \/ LNext
  \/ ConfirmCall
  \/ ConfirmSent
  \/ ConfirmRaises
  \/ ConfirmPoll
  \/ ConfirmWake
RaceSpec == RaceInit /\ [][RaceNext]_vars

QueryInit == WInit /\ SIdle /\ KInit /\ LIdle /\ QInit
QueryNext == QNext
QuerySpec == QueryInit /\ [][QueryNext]_vars

\* A ready task is run again by the event loop, and a send_message call ends:
\* every network call in it has a timeout and _retry is bounded.
FairSpec ==
  /\ Spec
  /\ \A b \in Backends : WF_vars(WorkerGet(b))
  /\ \A b \in Backends : WF_vars(SendReturn(b) \/ SendRaise(b))

\* ------------------------------------------------------------ claims C1..C5
IsPrefix(s, t) == Len(s) <= Len(t) /\ \A i \in 1..Len(s) : s[i] = t[i]

\* The envelopes enqueued through actor b, in enqueue order.
EnqueuedOn(b) == SelectSeq(enqueued, LAMBDA m : m.cls = b)

\* A send_message call of backend b is in flight.
WorkerInFlight(b) == worker[b] = "send"
InFlight(b) == WorkerInFlight(b) \/ (b = "Telegram" /\ direct > 0)

Quiescent == message_queue = << >> /\ \A b \in Backends : ~WorkerInFlight(b)

\* C1: the envelopes the worker of an actor hands to that actor's send_message
\* are the envelopes enqueued on that actor, in enqueue order: always a prefix
\* of them, and all N of them once the queue is empty and no call is running.
C1_DeliveredInEnqueueOrder ==
  \A b \in Backends :
    /\ IsPrefix(sent[b], EnqueuedOn(b))
    /\ (Quiescent => sent[b] = EnqueuedOn(b))

\* C2: an envelope enqueued on actor A is dequeued only by A's worker, so every
\* envelope a worker hands to its send_message is of its own backend's class
\* and none is consumed by another backend.
C2_OwnQueue ==
  \A b \in Backends : \A i \in 1..Len(sent[b]) : IsInstance(sent[b][i], b)

\* C3: the registry entry of a backend is true right after init, false during
\* every send_message call of that backend, and true again right after the
\* call ends.
C3_StatusAroundDeliver ==
  /\ [][\A b \in Backends :
         (~initialized[b] /\ initialized'[b]) =>
            (b \in DOMAIN status' /\ status'[b] = TRUE)]_vars
  /\ [](\A b \in Backends :
         InFlight(b) => (b \in DOMAIN status /\ status[b] = FALSE))
  /\ [][\A b \in Backends :
         (WorkerInFlight(b) /\ ~WorkerInFlight(b)') => status'[b] = TRUE]_vars

\* C4: whenever a backend is initialized and none of its send_message calls is
\* in flight, its registry entry is true, whatever the outcome of the calls
\* before.
C4_HealthyWhenIdle ==
  \A b \in Backends :
    (initialized[b] /\ ~InFlight(b)) => (b \in DOMAIN status /\ status[b] = TRUE)

\* C5: a send_message call that raises does not end the worker: every started
\* worker stays in its loop, and once a delivery has faulted the queue is
\* still drained, every envelope being handed to a send_message.
C5_WorkerSurvivesFault ==
  /\ [](\A b \in Backends : initialized[b] => worker[b] \in {"get", "send"})
  /\ (faults # {}) ~> (message_queue = << >>)

\* A worker whose send_message raised for one envelope has since taken a later
\* envelope, and the queue is empty.
C5_Witness ==
  /\ message_queue = << >>
  /\ \E b \in Backends : \E i, j \in 1..Len(sent[b]) :
       i < j /\ sent[b][i].id \in faults

\* ------------------------------------------------------------ claims C6..C9
\* A send_message call of the followed worker has ended.
SendEnded == frame.pc = "get" /\ frame.result # "none"

TargetSet(m) == {m.targets[i] : i \in DOMAIN m.targets}

CallSlots == {"media", "text"}

IsMediaMethod(method) == method \in {"send_video", "send_photo", "send_media_group"}

\* C6: when the send_message call for an envelope with several targets ends,
\* whatever faulted on the way, no fault has come out of it, every target of
\* the envelope was attempted, and every target none of whose calls faulted
\* received the message.
C6_PerTargetIsolation ==
  (SendEnded /\ Len(frame.msg.targets) >= 2) =>
    /\ frame.result = "returned"
    /\ \A t \in TargetSet(frame.msg) :
         /\ t \in frame.attempted
         /\ (t \notin frame.faulted => t \in frame.received)

\* C7: a _retry call that returned a result after k caught faults made
\* exactly k + 1 attempts and slept exactly k times, with k < 5.
C7_RetrySuccessPath ==
  \A k \in CallSlots :
    LET c == frame.calls[k] IN
      c.result = "ok" =>
        /\ c.faults < 5
        /\ c.attempts = c.faults + 1
        /\ c.delays = c.faults

\* Faults on attempts 1 and 2, success on attempt 3: 3 attempts, 2 delays.
C7_Witness ==
  \E k \in CallSlots :
    LET c == frame.calls[k] IN
      c.result = "ok" /\ c.faults = 2 /\ c.attempts = 3 /\ c.delays = 2

\* C8: a _retry call never makes more than 5 attempts; after 5 caught faults
\* and the last delay it has raised RuntimeError, and that exception has been
\* logged by the worker, which is back at message_queue.get().
C8_RetryBounded ==
  /\ \A k \in CallSlots :
       LET c == frame.calls[k] IN
         /\ c.attempts <= 5
         /\ (c.result = "RuntimeError" <=> (c.faults = 5 /\ c.delays = 5))
         /\ (c.result = "RuntimeError" =>
               (c.attempts = 5 /\ frame.result = "RuntimeError"))
  /\ (frame.result = "RuntimeError" =>
        (frame.logged = "RuntimeError" /\ frame.pc = "get"))

\* A call whose 5 attempts all faulted has ended the send_message call.
C8_Witness ==
  /\ SendEnded
  /\ frame.result = "RuntimeError"
  /\ \E k \in CallSlots : frame.calls[k].attempts = 5 /\ frame.calls[k].faults = 5

\* C9: when the first attempt of a media send to a target ends with
\* BadRequest, the media send is not attempted again and a text-only
\* send_message to the same target is under way or done, counting its
\* attempts from zero.
C9_TextOnlyFallback ==
  LET c == frame.calls.media IN
    (IsMediaMethod(c.method) /\ c.first = "BadRequest") =>
      /\ c.attempts = 1
      /\ frame.calls.text.method = "send_message"
      /\ (frame.pc = "attempt" => frame.i = frame.calls.text.faults)

\* ------------------------------------------------------------ claim C10
\* The text is "Y" (resp. "N") in either case, with blanks around it at most.
IsReply(text, letters) ==
  /\ text # NoText
  /\ \E i \in DOMAIN text :
       /\ text[i] \in letters
       /\ \A j \in DOMAIN text : j # i => text[j] = " "

\* Update u is a message not older than the prompt, from a chat of the
\* envelope's target list, saying one of `letters`.
Qualifies(u, letters) ==
  /\ u \in DOMAIN inbox
  /\ inbox[u].message
  /\ inbox[u].date >= cf.sending_time
  /\ \E i \in DOMAIN cf.chat_id_list : cf.chat_id_list[i] = inbox[u].chat
  /\ IsReply(inbox[u].text, letters)

\* C10: confirm has returned true (resp. false) only on a polled update that
\* is a message dated at or after the send time, from a chat of the target
\* list, whose text is "Y" (resp. "N") once stripped and upper-cased.
C10_ConfirmOnlyOnReply ==
  cf.pc = "done" =>
    /\ cf.result \in {"True", "False"}
    /\ (cf.result = "True" => Qualifies(cf.by, {"y", "Y"}))
    /\ (cf.result = "False" => Qualifies(cf.by, {"n", "N"}))

\* confirm returned false on " n"-like text although an older reply and a
\* reply from a chat outside the target list had arrived before it.
C10_Witness ==
  /\ cf.pc = "done"
  /\ cf.result = "False"
  /\ cf.by > 1
  /\ \E u \in 1..(cf.by - 1) :
       /\ inbox[u].message
       /\ inbox[u].text # NoText
       /\ Upper(Strip(inbox[u].text)) \in {<<"Y">>, <<"N">>}
       /\ \/ inbox[u].date < cf.sending_time
          \/ NotATarget(inbox[u].chat, cf.chat_id_list)

\* ------------------------------------------------------------ claims C11..C20
\* C11: update_offset never decreases: whichever of init, confirm and
\* listen_exit_command polls, and in whatever order the get_updates calls
\* end, every value assigned to the cursor is at least the value before.
C11_CursorNeverDecreases == [][update_offset' >= update_offset]_vars

\* C12: an actor that has not completed init accepts neither
\* put_message_into_queue nor send_message: as long as a backend is not
\* initialized (the Telegram handshake included) no envelope has been enqueued
\* through it, and no send_message call of it has run or is running.
C12_RefusedBeforeInit ==
  \A b \in Backends :
    ~initialized[b] =>
      /\ EnqueuedOn(b) = << >>
      /\ sent[b] = << >>
      /\ ~InFlight(b)

\* TelegramNotifier.send_message was refused during the handshake of init,
\* while another actor had envelopes enqueued.
C12_Witness ==
  /\ handshake
  /\ refused = [op |-> "send_message", cls |-> "Telegram", handshake |-> TRUE]
  /\ enqueued # << >>

\* C13: when TelegramNotifier.init raises to its caller, the backend is left
\* as it was: not initialized, without a registry entry, without a worker.
C13_FailedInitLeavesUninitialized ==
  [][(~init_fault /\ init_fault') =>
       /\ ~initialized'["Telegram"]
       /\ "Telegram" \notin DOMAIN status'
       /\ worker'["Telegram"] = "none"]_vars

\* The handshake of TelegramNotifier.init has failed while Discord is running.
C13_Witness ==
  /\ init_fault
  /\ ~handshake
  /\ ~initialized["Telegram"]
  /\ initialized["Discord"]
  /\ "Telegram" \notin DOMAIN status

\* The send_message calls of backend b in flight: the one of its worker, and
\* on Telegram those of confirm and listen_exit_command.
Deliveries(b) ==
  (IF WorkerInFlight(b) THEN 1 ELSE 0) + (IF b = "Telegram" THEN direct ELSE 0)

\* C14: at any time at most one send_message call of a backend is in flight,
\* the worker's calls and the direct calls of confirm and listen_exit_command
\* counted together.
C14_OneDeliverInFlight == \A b \in Backends : Deliveries(b) <= 1

\* What the text and the photo urls look like without their http(s):// prefix.
TextWithoutPrefixes(text) == IF text = Linked THEN <<"a ", "t.co b ", "u.org">> ELSE text
PhotoPath(i) == <<"x/", ToString(i)>>

\* CqhttpNotifier.send_message, for an envelope with text and photos (no
\* video), has ended a target all of whose posts succeeded.
CqhttpDelivered ==
  /\ actor = "Cqhttp"
  /\ frame.msg.videos = 0
  /\ frame.last.target \in frame.received

\* C15: when CqhttpNotifier.send_message is through with a target whose posts
\* succeeded (the worker sets the registry entry idle only after the call has
\* returned), the target has got one POST with the text, prefixes stripped,
\* then one POST per photo in photo order, each an inline-media token around
\* the url with its prefix stripped.
C15_CqhttpStrippedUrls ==
  CqhttpDelivered =>
    frame.last.posted =
      <<TextWithoutPrefixes(frame.msg.text)>> \o
      [i \in 1..frame.msg.photos |-> <<"[CQ:image,file=">> \o PhotoPath(i) \o <<"]">>]

\* C15, amended: as C15, but the inline-media token is around the photo url
\* as it is in the envelope, prefix included; only the text is stripped.
C15_CqhttpPostsInOrder ==
  CqhttpDelivered =>
    frame.last.posted =
      <<TextWithoutPrefixes(frame.msg.text)>> \o
      [i \in 1..frame.msg.photos |->
         <<"[CQ:image,file=">> \o (IF i % 2 = 1 THEN Http ELSE Https) \o PhotoPath(i)
           \o <<"]">>]

\* A text with two links and two photos went to two targets, and
\* send_message has returned.
C15_Witness ==
  /\ CqhttpDelivered
  /\ frame.result = "returned"
  /\ frame.msg.text = Linked
  /\ frame.msg.photos = 2
  /\ Cardinality(frame.received) = 2

\* C16: in DiscordNotifier.send_message a fault on one post does not keep the
\* later posts to the same target from being attempted: when the call is
\* through with a target, the target has been sent the text, every photo url
\* and every video url.
C16_DiscordPerPostIsolation ==
  (actor = "Discord" /\ frame.last.target # 0) =>
    Len(frame.last.posted) = NPosts(frame.msg)

\* C16, amended: a fault on one post ends the posts to that target, the
\* posts after it are not attempted; the next target is still attempted, and
\* the call returns.
C16_DiscordPerTargetIsolation ==
  /\ (actor = "Discord" /\ frame.last.target # 0) =>
       /\ frame.last.fault_at = 0 => Len(frame.last.posted) = NPosts(frame.msg)
       /\ frame.last.fault_at > 0 => Len(frame.last.posted) = frame.last.fault_at
  /\ (actor = "Discord" /\ SendEnded) =>
       /\ frame.result = "returned"
       /\ frame.attempted = TargetSet(frame.msg)

\* The text post to the first target faulted, its photo post was skipped, and
\* the second target is being sent the text.
C16_Witness ==
  /\ actor = "Discord"
  /\ frame.pc = "post"
  /\ frame.idx = 2
  /\ frame.msg.photos >= 1
  /\ frame.last.target = frame.msg.targets[1]
  /\ frame.last.fault_at = 1

\* text is EXIT in any case, with spaces before and after it only.
IsExitText(text) ==
  /\ text # NoText
  /\ \E a, b \in 0..Len(text) :
       /\ Len(text) = a + 4 + b
       /\ \A i \in 1..a : text[i] = " "
       /\ \A i \in (a + 5)..Len(text) : text[i] = " "
       /\ text[a + 1] \in {"e", "E"}
       /\ text[a + 2] \in {"x", "X"}
       /\ text[a + 3] \in {"i", "I"}
       /\ text[a + 4] \in {"t", "T"}

\* Update u is a message of the listener's chat, dated at or after the
\* listener's start, that says EXIT.
ExitAsked(u) ==
  /\ u \in DOMAIN inbox
  /\ inbox[u].message
  /\ inbox[u].chat = ls.chat_id
  /\ inbox[u].date >= ls.starting_time
  /\ IsExitText(inbox[u].text)

\* C17: listen_exit_command ends the process only after an EXIT message of
\* its chat dated at or after its start, then a confirm call that returned
\* true on a later update, then the farewell's send_message; as long as the
\* last confirm call returned false the listener is in its loop, with no
\* farewell and no exit.
C17_ExitOnlyWhenConfirmed ==
  /\ ls.pc \in {"exit_sleep", "exited"} =>
       /\ ExitAsked(ls.exit_by)
       /\ ls.confirmed = "True"
       /\ ls.by > ls.exit_by
       /\ ls.farewell
  /\ ls.confirmed = "False" => ls.pc \notin {"farewell", "exit_sleep", "exited"}

\* os._exit(0) was reached.
C17_Witness ==
  /\ ls.pc = "exited"
  /\ ExitAsked(ls.exit_by)
  /\ inbox[ls.by].text = <<"y">>

\* The response is one query hands back: status 200, 403 or 404, a body that
\* is not empty, and no "errors" field in it.
Usable(o) ==
  /\ o.kind = "response"
  /\ o.status \in {200, 403, 404}
  /\ o.body = "json"

\* C18: one query call makes at most token_number requests, the k-th with the
\* credential k places after the index the call found (round robin, so each
\* with another credential), the index stays in 0..token_number-1, a returned
\* response is the first usable one of the call, and None is returned only
\* after token_number requests of which none was usable.
C18_QueryRotates ==
  /\ current_token_index \in 0..(token_number - 1)
  /\ Len(q.used) <= token_number
  /\ Len(q.outcomes) <= Len(q.used)
  /\ \A k \in DOMAIN q.used :
       /\ q.used[k] = (q.start + k) % token_number
       /\ \A j \in DOMAIN q.used : j # k => q.used[j] # q.used[k]
  /\ q.used # << >> => current_token_index = q.used[Len(q.used)]
  /\ q.pc = "returned" =>
       /\ q.result = q.outcomes[Len(q.outcomes)]
       /\ Usable(q.result)
       /\ \A k \in 1..(Len(q.outcomes) - 1) : ~Usable(q.outcomes[k])
  /\ q.pc = "none" =>
       /\ Len(q.outcomes) = token_number
       /\ \A k \in DOMAIN q.outcomes : ~Usable(q.outcomes[k])

\* With three credentials a call that found index 1 used 2, 0 and 1, and the
\* third answered, after a 429 and an empty body.
C18_Witness ==
  /\ token_number = 3
  /\ q.pc = "returned"
  /\ q.used = <<2, 0, 1>>
  /\ q.outcomes[1].status = 429
  /\ q.outcomes[2].body = "empty"

\* C19: no inbound update is returned to more than one _get_new_updates
\* call, whether the calls are those of one loop or those of a confirm call
\* and of listen_exit_command running together.
C19_NoUpdateTwice == twice = {}

\* The replies to the confirm call: messages dated after its send time, from
\* a chat of its target list, whose text is Y or N once stripped and
\* upper-cased.
Replies ==
  {u \in DOMAIN inbox :
     /\ inbox[u].date > cf.sending_time
     /\ Qualifies(u, {"y", "Y", "n", "N"})}

\* C20: a confirm call that has been replied to returns the value of the
\* first reply, also when listen_exit_command polls the same cursor: when it
\* has returned, it has returned on the first of the replies.
C20_ConfirmReturnsFirstReply ==
  (cf.pc = "done" /\ Replies # {}) => \A u \in Replies : cf.by <= u

\* A step in which backend b becomes initialized.
BecomesInitialized(b) == ~initialized[b] /\ initialized'[b]

\* C21: readiness is per backend.  The init of one backend sets the flag and
\* the registry entry of that backend only: every other backend keeps its flag
\* and keeps its registry entry, absent where it was absent.  A backend that
\* has not been initialized itself has no registry entry, and no envelope is
\* enqueued through it whichever other backends are initialized.
C21_ReadinessPerBackend ==
  [][/\ \A b \in Backends :
          BecomesInitialized(b) =>
            /\ b \in DOMAIN status' /\ status'[b]
            /\ \A c \in Backends \ {b} :
                 /\ initialized'[c] = initialized[c]
                 /\ (c \in DOMAIN status') = (c \in DOMAIN status)
     /\ \A c \in Backends :
          ~initialized'[c] =>
            /\ c \notin DOMAIN status'
            /\ Len(SelectSeq(enqueued', LAMBDA m : m.cls = c))
                 = Len(EnqueuedOn(c))]_vars

\* Discord alone is initialized and registered and has an envelope enqueued;
\* put_message_into_queue on Cqhttp has been refused after that.
C21_Witness ==
  /\ initialized = [b \in Backends |-> b = "Discord"]
  /\ DOMAIN status = {"Discord"}
  /\ EnqueuedOn("Discord") # << >>
  /\ refused = [op |-> "put_message_into_queue", cls |-> "Cqhttp",
                handshake |-> FALSE]

====
